---- MODULE Spec2Model ----
(***************************************************************************)
(* Model of custom_components/webhook_conversation/tts.py: the webhook     *)
(* text-to-speech entity.  Construction from a config subentry, the two    *)
(* accessors (async_get_supported_voices, default_options) and the         *)
(* synthesis call async_get_tts_audio, split at its await points.          *)
(***************************************************************************)
EXTENDS Integers, Sequences, FiniteSets, TLC

VARIABLES
    config_entry,    \* the ConfigEntry: webhook url and its subentries (immutable)
    setup,           \* "pending" | "done" | "raised": outcome of async_setup_entry
    entities,        \* the entities handed to async_add_entities, in order
    voices_ret,      \* last async_get_supported_voices call: arguments and return value
    options_ret,     \* last default_options access: entity and return value
    pc,              \* position of the async_get_tts_audio coroutine
    call,            \* arguments of the running async_get_tts_audio call
    hook_calls,      \* number of _apply_custom_request_fields calls of this call
    hook_arg,        \* payload handed to _apply_custom_request_fields
    hook_ret,        \* payload _apply_custom_request_fields returned
    posts,           \* the session.post requests issued by this call, in order
    response,        \* status line and headers of the webhook response
    response_bytes,  \* outcome of response.read()
    result           \* what the call returned or raised

vars == << config_entry, setup, entities, voices_ret, options_ret, pc, call,
           hook_calls, hook_arg, hook_ret, posts, response, response_bytes, result >>

cfgvars == << config_entry, setup, entities, voices_ret, options_ret >>

callvars == << pc, call, hook_calls, hook_arg, hook_ret, posts, response,
               response_bytes, result >>

---------------------------------------------------------------------------
(* Bounds of the model.                                                    *)

MaxSubentries == 1
MaxCtLen == 5

---------------------------------------------------------------------------
(* Python values.  Values of different Python types are tagged records.    *)

None == [kind |-> "None"]
Str(s) == [kind |-> "str", val |-> s]
PyInt(n) == [kind |-> "int", val |-> n]
\* a str held as its sequence of characters
Chars(s) == [kind |-> "chars", val |-> s]
List(items) == [kind |-> "list", items |-> items]
Dict(map) == [kind |-> "dict", map |-> map]

\* homeassistant.components.tts.Voice(voice_id, name)
Voice(voice_id, name) == [kind |-> "Voice", voice_id |-> voice_id, name |-> name]

\* Python truth value of a value: None, "", 0, [] and {} are falsy.
Truthy(v) ==
    CASE v.kind = "None" -> FALSE
      [] v.kind = "str" -> v.val # ""
      [] v.kind = "chars" -> v.val # << >>
      [] v.kind = "int" -> v.val # 0
      [] v.kind = "list" -> v.items # << >>
      [] v.kind = "dict" -> DOMAIN v.map # {}
      [] OTHER -> TRUE

ATTR_VOICE == "voice"
CONF_SUPPORTED_LANGUAGES == "supported_languages"
CONF_VOICES == "voices"

\* sequences over S of length lo..hi
SeqsOf(S, lo, hi) == UNION { [1..n -> S] : n \in lo..hi }

---------------------------------------------------------------------------
(* Construction: WebhookConversationTextToSpeechEntity.__init__            *)

\* subentry.data[CONF_SUPPORTED_LANGUAGES] raises KeyError when the key is
\* absent and supported_languages[0] raises IndexError when the list is empty.
InitRaises(subentry) ==
    \/ CONF_SUPPORTED_LANGUAGES \notin DOMAIN subentry.data
    \/ Len(subentry.data[CONF_SUPPORTED_LANGUAGES]) = 0

\* self._webhook_url, set by WebhookConversationBaseEntity.__init__
WebhookUrl(entry, subentry) == entry.webhook_url

\* voices := subentry.data.get(CONF_VOICES); a missing or empty list is falsy
\* and leaves the class attribute _voices = None.
InitVoices(subentry) ==
    IF CONF_VOICES \in DOMAIN subentry.data /\ Len(subentry.data[CONF_VOICES]) > 0
    THEN List([i \in 1..Len(subentry.data[CONF_VOICES]) |->
                 Voice(subentry.data[CONF_VOICES][i], subentry.data[CONF_VOICES][i])])
    ELSE None

InitSupportedOptions(subentry) ==
    IF CONF_VOICES \in DOMAIN subentry.data /\ Len(subentry.data[CONF_VOICES]) > 0
    THEN << ATTR_VOICE >>
    ELSE << >>

\* variant of __init__ taking supported_languages[-1] as the default language
ConstructLastLanguage(entry, subentry) ==
    [ subentry_id |-> subentry.subentry_id,
      _webhook_url |-> WebhookUrl(entry, subentry),
      _attr_supported_languages |-> subentry.data[CONF_SUPPORTED_LANGUAGES],
      _attr_default_language |->
          subentry.data[CONF_SUPPORTED_LANGUAGES][Len(subentry.data[CONF_SUPPORTED_LANGUAGES])],
      _attr_supported_options |-> InitSupportedOptions(subentry),
      _voices |-> InitVoices(subentry),
      default_options_cached |-> FALSE,
      default_options |-> None ]

\* The entity __init__ builds when it does not raise.
Construct(entry, subentry) ==
    [ subentry_id |-> subentry.subentry_id,
      _webhook_url |-> WebhookUrl(entry, subentry),
      _attr_supported_languages |-> subentry.data[CONF_SUPPORTED_LANGUAGES],
      _attr_default_language |-> subentry.data[CONF_SUPPORTED_LANGUAGES][1],
      _attr_supported_options |-> InitSupportedOptions(subentry),
      _voices |-> InitVoices(subentry),
      default_options_cached |-> FALSE,
      default_options |-> None ]

\* async_setup_entry: the loop over config_entry.subentries.values(); an
\* exception of __init__ leaves the loop and the entities added so far.
RECURSIVE SetupLoop(_, _, _)
SetupLoop(entry, i, added) ==
    IF i > Len(entry.subentries)
    THEN [entities |-> added, raised |-> FALSE]
    ELSE IF entry.subentries[i].subentry_type # "tts"
    THEN SetupLoop(entry, i + 1, added)
    ELSE IF InitRaises(entry.subentries[i])
    THEN [entities |-> added, raised |-> TRUE]
    ELSE SetupLoop(entry, i + 1, Append(added, Construct(entry, entry.subentries[i])))

SetupEntry(entry) == SetupLoop(entry, 1, << >>)

---------------------------------------------------------------------------
(* Configurations.                                                         *)

NoCall == [entity |-> 0]
NoResponse == [received |-> FALSE]
NotRead == [read |-> FALSE]
NoResult == [kind |-> "none"]
NoReturn == [called |-> FALSE]

LanguageLists == { << >>, <<"en">>, <<"en", "fr">>, <<"fr", "en">> }
VoiceLists == { << >>, <<"a">>, <<"a", "b">>, <<"b", "a">> }

\* subentry.data with each of the two keys present or absent
SubentryData ==
    { [k \in keys |-> IF k = CONF_SUPPORTED_LANGUAGES THEN langs ELSE voices] :
        keys \in SUBSET {CONF_SUPPORTED_LANGUAGES, CONF_VOICES},
        langs \in LanguageLists, voices \in VoiceLists }

SubentryShapes ==
    { [subentry_type |-> "tts", data |-> d] : d \in SubentryData }
    \cup { [subentry_type |-> "conversation", data |-> [k \in {} |-> << >>]] }

\* config_entry.subentries, keyed by subentry_id in insertion order
WithIds(shapes) ==
    [i \in 1..Len(shapes) |->
        [subentry_id |-> i, subentry_type |-> shapes[i].subentry_type,
         data |-> shapes[i].data]]

ConfigEntries ==
    { [webhook_url |-> "http://hook.local/tts", subentries |-> WithIds(shapes)] :
        shapes \in SeqsOf(SubentryShapes, 0, MaxSubentries) }

\* two configured TTS subentries, one with voices and one without
TtsEntries ==
    { [webhook_url |-> url,
       subentries |-> WithIds(<< [subentry_type |-> "tts",
                                  data |-> [k \in {CONF_SUPPORTED_LANGUAGES, CONF_VOICES} |->
                                              IF k = CONF_SUPPORTED_LANGUAGES
                                              THEN <<"en", "fr">> ELSE voices]] >>)] :
        url \in {"http://hook.local/tts", "http://n8n.local/webhook/x"},
        voices \in {<< >>, <<"a", "b">>} }

IdleCall ==
    /\ pc = "idle"
    /\ call = NoCall
    /\ hook_calls = 0
    /\ hook_arg = NoReturn
    /\ hook_ret = NoReturn
    /\ posts = << >>
    /\ response = NoResponse
    /\ response_bytes = NotRead
    /\ result = NoResult

\* before async_setup_entry has run
InitSetup ==
    /\ config_entry \in ConfigEntries
    /\ setup = "pending"
    /\ entities = << >>
    /\ voices_ret = NoReturn
    /\ options_ret = NoReturn
    /\ IdleCall

\* after async_setup_entry has added the entities of a valid entry
Init ==
    /\ config_entry \in TtsEntries
    /\ setup = "done"
    /\ entities = SetupEntry(config_entry).entities
    /\ voices_ret = NoReturn
    /\ options_ret = NoReturn
    /\ IdleCall

---------------------------------------------------------------------------
(* Setup and the accessors.                                                *)

AsyncSetupEntry ==
    /\ setup = "pending"
    /\ entities' = SetupEntry(config_entry).entities
    /\ setup' = IF SetupEntry(config_entry).raised THEN "raised" ELSE "done"
    /\ UNCHANGED << config_entry, voices_ret, options_ret >>
    /\ UNCHANGED callvars

\* variant of the accessor that filters by the entity's supported languages
GetSupportedVoicesByLanguage(entity, language) ==
    IF \E i \in 1..Len(entity._attr_supported_languages) :
           entity._attr_supported_languages[i] = language
    THEN entity._voices
    ELSE None

\* async_get_supported_voices(self, language)
GetSupportedVoices(entity, language) == entity._voices

AsyncGetSupportedVoices(e, language) ==
    /\ e \in 1..Len(entities)
    /\ voices_ret' = [called |-> TRUE, entity |-> e, language |-> language,
                      value |-> GetSupportedVoices(entities[e], language)]
    /\ UNCHANGED << config_entry, setup, entities, options_ret >>
    /\ UNCHANGED callvars

\* the body of default_options
ComputeDefaultOptions(entity) ==
    IF ~Truthy(entity._voices)
    THEN None
    ELSE Dict([k \in {ATTR_VOICE} |-> entity._voices.items[1]])

\* cached_property: the body runs on the first access, later accesses
\* return the stored value.
DefaultOptions(e) ==
    /\ e \in 1..Len(entities)
    /\ IF entities[e].default_options_cached
       THEN /\ options_ret' = [called |-> TRUE, entity |-> e,
                               value |-> entities[e].default_options]
            /\ UNCHANGED entities
       ELSE /\ options_ret' = [called |-> TRUE, entity |-> e,
                               value |-> ComputeDefaultOptions(entities[e])]
            /\ entities' = [entities EXCEPT
                              ![e].default_options_cached = TRUE,
                              ![e].default_options = ComputeDefaultOptions(entities[e])]
    /\ UNCHANGED << config_entry, setup, voices_ret >>
    /\ UNCHANGED callvars

---------------------------------------------------------------------------
(* Strings of the Content-Type header, as sequences of characters.         *)

\* str.split(sep)[-1]: the characters after the last occurrence of sep
RECURSIVE LastSegment(_, _)
LastSegment(s, sep) ==
    IF \E i \in 1..Len(s) : s[i] = sep
    THEN LastSegment(Tail(s), sep)
    ELSE s

\* "/" in content_type
Contains(s, ch) == \E i \in 1..Len(s) : s[i] = ch

WAV == <<"w", "a", "v">>
MP3 == <<"m", "p", "3">>

\* ["wav", "mp3"]
SupportedFormats == { WAV, MP3 }

\* not content_type or "/" not in content_type
\* variant of the header check that tests `content_type is None` only
ContentTypeInvalidWhenMissing(content_type) == content_type.kind = "None"

ContentTypeInvalid(content_type) ==
    \/ ~Truthy(content_type)
    \/ ~Contains(content_type.val, "/")

\* variant of the status check that tests `response.status >= 400`
StatusIsErrorFrom400(status) == status >= 400

\* response.status != 200
StatusIsError(status) == status # 200

\* content_type.split("/")[-1]
AudioFormat(content_type) == LastSegment(content_type.val, "/")

---------------------------------------------------------------------------
(* The request payload.                                                    *)

\* options.get(key)
Get(options, key) == IF key \in DOMAIN options THEN options[key] ELSE None

\* variant of the assembly that tests `ATTR_VOICE in options`
BuildPayloadVoiceIfPresent(message, language, options) ==
    [k \in {"text", "language"} \cup
           (IF ATTR_VOICE \in DOMAIN options THEN {"voice"} ELSE {}) |->
        CASE k = "text" -> Str(message)
          [] k = "language" -> Str(language)
          [] OTHER -> Get(options, ATTR_VOICE)]

\* payload = {"text": message, "language": language}, and "voice" when
\* options.get(ATTR_VOICE) is truthy
BuildPayload(message, language, options) ==
    [k \in {"text", "language"} \cup
           (IF Truthy(Get(options, ATTR_VOICE)) THEN {"voice"} ELSE {}) |->
        CASE k = "text" -> Str(message)
          [] k = "language" -> Str(language)
          [] OTHER -> Get(options, ATTR_VOICE)]

\* WebhookConversationBaseEntity._apply_custom_request_fields: it may add,
\* remove or rewrite fields of the payload.
Hooks == {"identity", "add_field", "delete_voice", "rewrite_voice", "delete_text"}

ApplyCustomRequestFields(hook, payload) ==
    CASE hook = "identity" -> payload
      [] hook = "add_field" ->
            [k \in DOMAIN payload \cup {"user"} |->
                IF k = "user" THEN Str("u1") ELSE payload[k]]
      [] hook = "delete_voice" -> [k \in DOMAIN payload \ {"voice"} |-> payload[k]]
      [] hook = "rewrite_voice" ->
            [k \in DOMAIN payload \cup {"voice"} |->
                IF k = "voice" THEN Str("custom") ELSE payload[k]]
      [] hook = "delete_text" -> [k \in DOMAIN payload \ {"text"} |-> payload[k]]

---------------------------------------------------------------------------
(* async_get_tts_audio, one action per stretch between two awaits.         *)

\* variant of the POST that sends the payload as assembled before the hook
PostRequestAssembled(entity, assembled, returned) ==
    [url |-> entity._webhook_url, json |-> assembled]

\* session.post(self._webhook_url, json=payload, ...), payload being what
\* _apply_custom_request_fields returned
PostRequest(entity, assembled, returned) ==
    [url |-> entity._webhook_url, json |-> returned]

\* Entry of the call up to the await of the hook: the payload is assembled
\* and handed, as a copy, to _apply_custom_request_fields.
AsyncGetTtsAudio(e, message, language, options) ==
    /\ pc = "idle"
    /\ e \in 1..Len(entities)
    /\ call' = [entity |-> e, message |-> message, language |-> language,
                options |-> options]
    /\ hook_arg' = [called |-> TRUE, payload |-> BuildPayload(message, language, options)]
    /\ hook_calls' = hook_calls + 1
    /\ pc' = "hook"
    /\ UNCHANGED << hook_ret, posts, response, response_bytes, result >>
    /\ UNCHANGED cfgvars

\* The hook returns; its return value becomes the payload and is posted.
HookReturns(hook) ==
    /\ pc = "hook"
    /\ hook_ret' = [called |-> TRUE,
                    payload |-> ApplyCustomRequestFields(hook, hook_arg.payload)]
    /\ posts' = Append(posts, PostRequest(entities[call.entity], hook_arg.payload,
                                          ApplyCustomRequestFields(hook, hook_arg.payload)))
    /\ pc' = "post"
    /\ UNCHANGED << call, hook_calls, hook_arg, response, response_bytes, result >>
    /\ UNCHANGED cfgvars

StatusError(status, reason) ==
    [kind |-> "raise", exc |-> "HomeAssistantError",
     msg |-> "Error contacting TTS webhook: HTTP {status} - {reason}",
     status |-> status, reason |-> reason]

InvalidContentTypeError(content_type) ==
    [kind |-> "raise", exc |-> "HomeAssistantError",
     msg |-> "Invalid Content-Type in TTS webhook response: {content_type}",
     content_type |-> content_type]

UnsupportedFormatError(audio_format) ==
    [kind |-> "raise", exc |-> "HomeAssistantError",
     msg |-> "Unsupported audio format in TTS webhook response: {audio_format}",
     audio_format |-> audio_format]

\* variant of the status branch that posts once more before raising
RetryOnStatusError(status, reason) ==
    /\ posts' = Append(posts, posts[Len(posts)])
    /\ pc' = IF Len(posts) < 2 THEN "post" ELSE "done"
    /\ result' = IF Len(posts) < 2 THEN result ELSE StatusError(status, reason)

\* raise HomeAssistantError(...) on a status other than 200: the call ends
RaiseStatusError(status, reason) ==
    /\ posts' = posts
    /\ pc' = "done"
    /\ result' = StatusError(status, reason)

\* The status line and headers of the response arrive.
ResponseArrives(status, reason, content_type) ==
    /\ pc = "post"
    /\ response' = [received |-> TRUE, status |-> status, reason |-> reason,
                    content_type |-> content_type]
    /\ IF StatusIsError(status)
       THEN RaiseStatusError(status, reason)
       ELSE /\ pc' = "read"
            /\ UNCHANGED << posts, result >>
    /\ UNCHANGED << call, hook_calls, hook_arg, hook_ret, response_bytes >>
    /\ UNCHANGED cfgvars

\* The checks after response.read(), and the return value.
Validate(content_type, body) ==
    IF ContentTypeInvalid(content_type)
    THEN InvalidContentTypeError(content_type)
    ELSE IF AudioFormat(content_type) \notin SupportedFormats
    THEN UnsupportedFormatError(AudioFormat(content_type))
    ELSE [kind |-> "return", audio_format |-> AudioFormat(content_type),
          response_bytes |-> body]

\* response.read() completes with the body.
ReadCompletes(body) ==
    /\ pc = "read"
    /\ response_bytes' = [read |-> TRUE, bytes |-> body]
    /\ result' = Validate(response.content_type, body)
    /\ pc' = "done"
    /\ UNCHANGED << call, hook_calls, hook_arg, hook_ret, posts, response >>
    /\ UNCHANGED cfgvars

\* session.post or response.read() raises (connection error, timeout):
\* the exception leaves the call.
ClientError ==
    /\ pc \in {"post", "read"}
    /\ result' = [kind |-> "raise", exc |-> "ClientError"]
    /\ pc' = "done"
    /\ UNCHANGED << call, hook_calls, hook_arg, hook_ret, posts, response,
                    response_bytes >>
    /\ UNCHANGED cfgvars

\* The caller has the outcome; the next call starts afresh.
Return ==
    /\ pc = "done"
    /\ pc' = "idle"
    /\ call' = NoCall
    /\ hook_calls' = 0
    /\ hook_arg' = NoReturn
    /\ hook_ret' = NoReturn
    /\ posts' = << >>
    /\ response' = NoResponse
    /\ response_bytes' = NotRead
    /\ result' = NoResult
    /\ UNCHANGED cfgvars

---------------------------------------------------------------------------
(* Inputs.                                                                 *)

Messages == {"", "Hello"}
LanguageArgs == {"en", "de"}
OptionValues == { None, Str(""), Str("a"), Str("b"), PyInt(0), Voice("a", "a") }

\* the options dict: ATTR_VOICE and one unrelated key, each present or not
Options ==
    { [k \in keys |-> IF k = ATTR_VOICE THEN v ELSE Str("mp3")] :
        keys \in SUBSET {ATTR_VOICE, "preferred_format"}, v \in OptionValues }

FewOptions ==
    { [k \in keys |-> Str("a")] : keys \in SUBSET {ATTR_VOICE} }

Statuses == {200, 201, 404}
Reasons == {"OK", "Not Found"}
Bodies == { << >>, <<65, 66, 67>> }

CtChars == {"/", "w", "a", "v"}

NamedContentTypes ==
    { <<"a", "u", "d", "i", "o", "/", "m", "p", "3">>,
      <<"a", "u", "d", "i", "o", "/", "w", "a", "v">>,
      <<"a", "u", "d", "i", "o", "/", "m", "p", "e", "g">>,
      <<"t", "e", "x", "t", "/", "p", "l", "a", "i", "n">>,
      <<"a", "u", "d", "i", "o", "/", "x", "/", "m", "p", "3">>,
      <<"a", "u", "d", "i", "o", "/", "w", "a", "v", ";", "q", "=", "1">>,
      <<"m", "p", "3">>,
      << >> }

\* the Content-Type header: missing, or one of the strings
FewContentTypes == { None } \cup { Chars(s) : s \in NamedContentTypes }

ContentTypes == FewContentTypes \cup { Chars(s) : s \in SeqsOf(CtChars, 0, MaxCtLen) }

---------------------------------------------------------------------------
(* Specifications.                                                         *)

\* synthesis against every response
Next ==
    \/ \E e \in 1..Len(entities), o \in FewOptions :
          AsyncGetTtsAudio(e, "Hello", "en", o)
    \/ HookReturns("identity")
    \/ /\ pc = "post"
       /\ \E s \in Statuses, r \in Reasons, ct \in ContentTypes : ResponseArrives(s, r, ct)
    \/ \E b \in Bodies : ReadCompletes(b)
    \/ ClientError
    \/ Return

Spec == Init /\ [][Next]_vars

\* synthesis with every payload
NextPayload ==
    \/ \E e \in 1..Len(entities), m \in Messages, l \in LanguageArgs, o \in Options :
          AsyncGetTtsAudio(e, m, l, o)
    \/ \E h \in Hooks : HookReturns(h)
    \/ \E s \in Statuses, ct \in FewContentTypes : ResponseArrives(s, "OK", ct)
    \/ \E b \in Bodies : ReadCompletes(b)
    \/ ClientError
    \/ Return

SpecPayload == Init /\ [][NextPayload]_vars

\* setup of every configuration, the accessors, and synthesis
NextSetup ==
    \/ AsyncSetupEntry
    \/ \E e \in 1..Len(entities), l \in LanguageArgs : AsyncGetSupportedVoices(e, l)
    \/ \E e \in 1..Len(entities) : DefaultOptions(e)
    \/ \E e \in 1..Len(entities), o \in FewOptions :
          AsyncGetTtsAudio(e, "Hello", "en", o)
    \/ HookReturns("identity")
    \/ \E s \in {200, 404} : ResponseArrives(s, "OK", Chars(<<"a", "/", "w", "a", "v">>))
    \/ ReadCompletes(<<65, 66, 67>>)
    \/ ClientError
    \/ Return

SpecSetup == InitSetup /\ [][NextSetup]_vars

---------------------------------------------------------------------------
(* Claims.                                                                 *)

\* A response whose status line, headers and body all arrived.
FullyReceived == response.received /\ response_bytes.read

\* The subtype of a Content-Type holding a "/": everything after the first "/".
Subtype(content_type) ==
    LET i == CHOOSE j \in 1..Len(content_type.val) :
                 /\ content_type.val[j] = "/"
                 /\ \A k \in 1..(j - 1) : content_type.val[k] # "/"
    IN SubSeq(content_type.val, i + 1, Len(content_type.val))

HasSlash(content_type) ==
    /\ content_type.kind = "chars"
    /\ \E i \in 1..Len(content_type.val) : content_type.val[i] = "/"

AudioMp3 == Chars(<<"a", "u", "d", "i", "o", "/", "m", "p", "3">>)

\* C1: a finished call returned (format, bytes) exactly when the response had
\* status 200 and a Content-Type with a "/" whose subtype is wav or mp3, the
\* format being that subtype and the bytes the whole body; every other
\* finished call raised and returned nothing.
C1_ReturnsIffValidResponse ==
    pc = "done" =>
        IF /\ FullyReceived
           /\ response.status = 200
           /\ HasSlash(response.content_type)
           /\ Subtype(response.content_type) \in { <<"w", "a", "v">>, <<"m", "p", "3">> }
        THEN result = [kind |-> "return",
                       audio_format |-> Subtype(response.content_type),
                       response_bytes |-> response_bytes.bytes]
        ELSE result.kind = "raise"

\* C2: a call issues no POST before the hook has returned and exactly one
\* afterwards, to the configured webhook URL, whatever the response is; an
\* error is only ever the outcome of a finished call.
C2_ExactlyOnePost ==
    /\ Len(posts) <= 1
    /\ pc \in {"idle", "hook"} => posts = << >>
    /\ pc \in {"post", "read", "done"} =>
          /\ Len(posts) = 1
          /\ posts[1].url = config_entry.webhook_url
    /\ result.kind = "raise" => pc = "done"

C2_Witness ==
    /\ pc = "done"
    /\ response.received
    /\ response.status = 404
    /\ result.kind = "raise"
    /\ Len(posts) = 1

\* C3: the payload assembled by the call holds text and language as given,
\* and voice exactly when the options hold a voice that is not absent, None,
\* empty or zero, then with that value; it holds nothing else.
C3_AssembledPayload ==
    hook_arg.called =>
        LET payload == hook_arg.payload
            options == call.options
            selected == /\ "voice" \in DOMAIN options
                        /\ options["voice"] \notin { None, Str(""), PyInt(0) }
        IN /\ DOMAIN payload \subseteq {"text", "language", "voice"}
           /\ "text" \in DOMAIN payload
           /\ payload["text"] = Str(call.message)
           /\ "language" \in DOMAIN payload
           /\ payload["language"] = Str(call.language)
           /\ "voice" \in DOMAIN payload <=> selected
           /\ "voice" \in DOMAIN payload => payload["voice"] = options["voice"]

C3_Witness ==
    /\ hook_arg.called
    /\ "voice" \in DOMAIN call.options
    /\ call.options["voice"] = Str("")
    /\ call.message = "Hello"
    /\ "voice" \notin DOMAIN hook_arg.payload

\* C4: the hook is called once per call, with the assembled payload and
\* before any POST, and the JSON body of the POST is the hook's return value.
C4_HookDeterminesBody ==
    /\ pc = "idle" => hook_calls = 0 /\ ~hook_arg.called
    /\ pc # "idle" => hook_calls = 1 /\ hook_arg.called
    /\ hook_arg.called => {"text", "language"} \subseteq DOMAIN hook_arg.payload
    /\ ~hook_ret.called => posts = << >>
    /\ \A i \in 1..Len(posts) : hook_ret.called /\ posts[i].json = hook_ret.payload

C4_Witness ==
    /\ Len(posts) = 1
    /\ "voice" \in DOMAIN hook_arg.payload
    /\ "voice" \notin DOMAIN hook_ret.payload
    /\ "voice" \notin DOMAIN posts[1].json

\* C5: a response with a status other than 200 ends the call with the status
\* error carrying that status and reason, whatever its Content-Type, and the
\* body is not read.
C5_Non200RaisesStatusError ==
    (response.received /\ response.status # 200) =>
        /\ pc = "done"
        /\ ~response_bytes.read
        /\ result.kind = "raise"
        /\ result.exc = "HomeAssistantError"
        /\ result.msg = "Error contacting TTS webhook: HTTP {status} - {reason}"
        /\ result.status = response.status
        /\ result.reason = response.reason

C5_Witness ==
    /\ response.received
    /\ response.status = 404
    /\ response.reason = "Not Found"
    /\ response.content_type = AudioMp3
    /\ result.kind = "raise"

\* C6: a fully received 200 response whose Content-Type holds a "/" and whose
\* subtype is not wav or mp3 ends the call with the unsupported-format error
\* naming that subtype.
C6_OtherSubtypeUnsupported ==
    ( /\ pc = "done"
      /\ FullyReceived
      /\ response.status = 200
      /\ HasSlash(response.content_type)
      /\ Subtype(response.content_type) \notin { <<"w", "a", "v">>, <<"m", "p", "3">> } ) =>
        /\ result.kind = "raise"
        /\ result.exc = "HomeAssistantError"
        /\ result.msg = "Unsupported audio format in TTS webhook response: {audio_format}"
        /\ result.audio_format = Subtype(response.content_type)

\* C7: a fully received 200 response whose Content-Type is missing, empty or
\* without "/" ends the call with the invalid-Content-Type error carrying the
\* header value as received.
C7_InvalidContentType ==
    ( /\ pc = "done"
      /\ FullyReceived
      /\ response.status = 200
      /\ ~HasSlash(response.content_type) ) =>
        /\ result.kind = "raise"
        /\ result.exc = "HomeAssistantError"
        /\ result.msg = "Invalid Content-Type in TTS webhook response: {content_type}"
        /\ result.content_type = response.content_type

C7_Witness ==
    /\ pc = "done"
    /\ FullyReceived
    /\ response.status = 200
    /\ response.content_type = Chars(<<"w", "a", "v">>)
    /\ result.kind = "raise"

\* the subentry an entity was built from
SubentryOf(e) == config_entry.subentries[entities[e].subentry_id]

LanguagesMissing(subentry) ==
    \/ "supported_languages" \notin DOMAIN subentry.data
    \/ subentry.data["supported_languages"] = << >>

\* C8: setup raises at a TTS subentry whose language list is absent or empty
\* and adds no entity for it; every entity added has the configured, non-empty
\* language list, in order, and its first element as default language.
C8_LanguagesNonEmpty ==
    /\ setup = "pending" => entities = << >>
    /\ \A e \in 1..Len(entities) :
          /\ SubentryOf(e).subentry_type = "tts"
          /\ ~LanguagesMissing(SubentryOf(e))
          /\ entities[e]._attr_supported_languages = SubentryOf(e).data["supported_languages"]
          /\ Len(entities[e]._attr_supported_languages) > 0
          /\ entities[e]._attr_default_language = Head(entities[e]._attr_supported_languages)
    /\ setup # "pending" =>
          \A i \in 1..Len(config_entry.subentries) :
              ( /\ config_entry.subentries[i].subentry_type = "tts"
                /\ LanguagesMissing(config_entry.subentries[i]) ) =>
                  /\ setup = "raised"
                  /\ \A e \in 1..Len(entities) : entities[e].subentry_id # i

C8_Witness ==
    /\ setup = "raised"
    /\ entities = << >>
    /\ Len(config_entry.subentries) = 1
    /\ "supported_languages" \in DOMAIN config_entry.subentries[1].data
    /\ config_entry.subentries[1].data["supported_languages"] = << >>

VoicesMissing(subentry) ==
    \/ "voices" \notin DOMAIN subentry.data
    \/ subentry.data["voices"] = << >>

\* C9: default_options returns None when no voices are configured and
\* otherwise the mapping from "voice" to the first configured voice
\* identifier.
C9_DefaultOptionsSelectsFirstId ==
    options_ret.called =>
        options_ret.value =
            IF VoicesMissing(SubentryOf(options_ret.entity))
            THEN None
            ELSE Dict([k \in {"voice"} |->
                        Str(SubentryOf(options_ret.entity).data["voices"][1])])

\* one (id, id) voice per configured identifier, in order; None without voices
ConfiguredVoices(subentry) ==
    IF VoicesMissing(subentry)
    THEN None
    ELSE List([i \in 1..Len(subentry.data["voices"]) |->
                 [kind |-> "Voice", voice_id |-> subentry.data["voices"][i],
                  name |-> subentry.data["voices"][i]]])

\* C10: async_get_supported_voices returns the configured voices as (id, id)
\* pairs in order, or None without voices, whatever the language argument;
\* and no step, synthesis included, changes an entity's voice list.
C10_VoicesIgnoreLanguage ==
    /\ voices_ret.called =>
          voices_ret.value = ConfiguredVoices(SubentryOf(voices_ret.entity))
    /\ \A e \in 1..Len(entities) : entities[e]._voices = ConfiguredVoices(SubentryOf(e))

C10_Witness ==
    /\ voices_ret.called
    /\ voices_ret.language = "de"
    /\ voices_ret.value = List(<< Voice("a", "a"), Voice("b", "b") >>)
    /\ pc = "done"
    /\ result.kind = "return"

====
